---- MODULE Spec2Model ----
(***************************************************************************)
(* Model of sonic_platform/psu.py (Celestica E1031): the Psu object, the   *)
(* sysfs files it reads, and one action per accessor.                      *)
(*                                                                         *)
(* Text (file names, file contents) is a sequence of one-character         *)
(* strings, so that startswith, "in", str.isdigit, float() and int() are   *)
(* computed on the characters as Python computes them.                     *)
(* A path is a record [dir, name]: dir a tuple of path components, name    *)
(* the base name as text.                                                  *)
(***************************************************************************)
EXTENDS Integers, Sequences, FiniteSets

VARIABLES
    psu,        \* the Psu object's attributes (self)
    hwmon,      \* hwmon trees: existing hwmon root -> files in os.walk order
    platform,   \* files of PSU_E1031_STAT_PATH: base name -> content
    eeprom,     \* EEPROM files: path -> decoded fields of the blob
    last        \* the call just made and its outcome; NoCall while the caller
                \* is between calls

vars == <<psu, hwmon, platform, eeprom, last>>

----------------------------------------------------------------------------
(* Bounds of the model *)

\* Files present at once, hwmon trees and platform directory together.
MaxFiles == 2

----------------------------------------------------------------------------
(* Python text primitives *)

Digits == {"0", "1", "2", "3", "4", "5", "6", "7", "8", "9"}

\* str.isdigit on one character
isdigit(c) == c \in Digits

\* name.startswith(file_start)
startswith(s, p) == Len(p) <= Len(s) /\ SubSeq(s, 1, Len(p)) = p

\* search_str in text
contains(s, sub) ==
    \E i \in 0..(Len(s) - Len(sub)) : SubSeq(s, i + 1, i + Len(sub)) = sub

\* ''.join(list(filter(str.isdigit, basename)))
filter_digits(s) == SelectSeq(s, isdigit)

\* "prefix{}suffix".format(x); a template is [pre, post]
format(t, x) == t.pre \o x \o t.post

DigitVal(c) ==
    CASE c = "0" -> 0 [] c = "1" -> 1 [] c = "2" -> 2 [] c = "3" -> 3
      [] c = "4" -> 4 [] c = "5" -> 5 [] c = "6" -> 6 [] c = "7" -> 7
      [] c = "8" -> 8 [] c = "9" -> 9

RECURSIVE NatVal(_)
\* value of a string of decimal digits ("" is 0)
NatVal(s) ==
    IF s = <<>> THEN 0
    ELSE 10 * NatVal(SubSeq(s, 1, Len(s) - 1)) + DigitVal(s[Len(s)])

RECURSIVE Pow10(_)
Pow10(k) == IF k = 0 THEN 1 ELSE 10 * Pow10(k - 1)

AllDigits(s) == \A i \in 1..Len(s) : isdigit(s[i])

----------------------------------------------------------------------------
(* Python values: every value is a record of one shape.                    *)
(* A float is the exact rational n/d, d a power of ten, in lowest such     *)
(* terms, so that equal readings are equal records.                        *)

RECURSIVE Norm(_, _)
Norm(n, d) ==
    IF n = 0 THEN <<0, 1>>
    ELSE IF d > 1 /\ n % 10 = 0 THEN Norm(n \div 10, d \div 10)
    ELSE <<n, d>>

PyFloat(n, d) ==
    [kind |-> "float", n |-> Norm(n, d)[1], d |-> Norm(n, d)[2], s |-> <<>>, exc |-> ""]
PyInt(n)      == [kind |-> "int", n |-> n, d |-> 1, s |-> <<>>, exc |-> ""]
PyBool(b)     == [kind |-> "bool", n |-> IF b THEN 1 ELSE 0, d |-> 1, s |-> <<>>, exc |-> ""]
PyStr(s)      == [kind |-> "str", n |-> 0, d |-> 1, s |-> s, exc |-> ""]
PyNone        == [kind |-> "None", n |-> 0, d |-> 1, s |-> <<>>, exc |-> ""]
\* an exception propagating out of the call
PyRaise(exc)  == [kind |-> "raise", n |-> 0, d |-> 1, s |-> <<>>, exc |-> exc]

IsRaise(v) == v.kind = "raise"

\* text without one leading sign
Unsigned(t) == IF t # <<>> /\ t[1] \in {"+", "-"} THEN Tail(t) ELSE t
Sign(t) == IF t # <<>> /\ t[1] = "-" THEN -1 ELSE 1

\* position of the first "." in t, 0 when there is none
DotAt(t) ==
    IF \E i \in 1..Len(t) : t[i] = "."
    THEN CHOOSE i \in 1..Len(t) : t[i] = "." /\ \A j \in 1..(i - 1) : t[j] # "."
    ELSE 0

\* Variant: text that is no number reads as 0.0.
float_lenient(t) ==
    LET u == Unsigned(t)
    IN IF u # <<>> /\ AllDigits(u) THEN PyFloat(Sign(t) * NatVal(u), 1) ELSE PyFloat(0, 1)

\* float(text): [sign] digits [. digits] with at least one digit, else
\* ValueError; float("") is a ValueError.
float(t) ==
    LET u == Unsigned(t)
        k == DotAt(u)
        ip == IF k = 0 THEN u ELSE SubSeq(u, 1, k - 1)
        fp == IF k = 0 THEN <<>> ELSE SubSeq(u, k + 1, Len(u))
    IN IF AllDigits(ip) /\ AllDigits(fp) /\ Len(ip) + Len(fp) > 0
       THEN PyFloat(Sign(t) * (NatVal(ip) * Pow10(Len(fp)) + NatVal(fp)), Pow10(Len(fp)))
       ELSE PyRaise("ValueError")

\* int(x): x is the text read, or the int 0 that "or 0" put in its place;
\* text must be [sign] digits, else ValueError.
int(x) ==
    IF x.kind = "int" THEN x
    ELSE LET u == Unsigned(x.s)
         IN IF u # <<>> /\ AllDigits(u) THEN PyInt(Sign(x.s) * NatVal(u))
            ELSE PyRaise("ValueError")

\* x / k for a float x; an exception raised while computing x propagates
truediv(x, k) == IF IsRaise(x) THEN x ELSE PyFloat(x.n, x.d * k)

\* x or y: x when truthy (a non-empty string), else y
or(x, y) == IF x.s # <<>> THEN x ELSE y

\* a == b on Python values
eq(a, b) == IF IsRaise(a) THEN a ELSE PyBool(a.n * b.d = b.n * a.d)

----------------------------------------------------------------------------
(* Module constants of psu.py *)

PSU_E1031_STAT_PATH == <<"e1031.smc">>

\* HWMON_PATH.format(num, addr)
HWMON_PATH(num, addr) == <<"i2c", num, addr, "hwmon">>

PSU_NAME_LIST == << <<"P","S","U","-","R">>, <<"P","S","U","-","L">> >>

PSU_I2C_MAPPING ==
    [i \in {0, 1} |->
        IF i = 0 THEN [num |-> "13", addr |-> "5b", eeprom_addr |-> "53"]
        ELSE [num |-> "12", addr |-> "5a", eeprom_addr |-> "52"]]

\* PSU_EEPROM_PATH.format(num, eeprom_addr)
PSU_EEPROM_PATH(num, addr) == <<num, addr, "eeprom">>

\* PsuBase.STATUS_LED_COLOR_OFF
STATUS_LED_COLOR_OFF == <<"o","f","f">>

PsuIndices == {0, 1}

\* Psu.__init__(psu_index): the attributes of the new object. _eeprom is
\* not set by the constructor; NoEeprom stands for the missing attribute.
NoEeprom == [model_str |-> "", serial_number |-> ""]

NewPsu(psu_index) ==
    [index           |-> psu_index,
     psu_presence    |-> [pre |-> <<"p","s","u">>, post |-> <<"_","p","r","s">>],
     psu_oper_status |-> [pre |-> <<"p","s","u">>, post |-> <<"_","s","t","a","t","u","s">>],
     i2c_num         |-> PSU_I2C_MAPPING[psu_index].num,
     i2c_addr        |-> PSU_I2C_MAPPING[psu_index].addr,
     hwmon_path      |-> HWMON_PATH(PSU_I2C_MAPPING[psu_index].num,
                                    PSU_I2C_MAPPING[psu_index].addr),
     eeprom_addr     |-> PSU_EEPROM_PATH(PSU_I2C_MAPPING[psu_index].num,
                                         PSU_I2C_MAPPING[psu_index].eeprom_addr),
     _eeprom         |-> NoEeprom]

----------------------------------------------------------------------------
(* The filesystem as the accessors see it *)

\* os.path.join(dirpath, name), os.path.dirname, os.path.basename
join(dirpath, name) == [dir |-> dirpath, name |-> name]
dirname(path)  == path.dir
basename(path) == path.name

PathOf(f) == join(f.dir, f.name)

\* every file of the hwmon trees, as a set
HwmonFiles == UNION {{hwmon[r][i] : i \in 1..Len(hwmon[r])} : r \in DOMAIN hwmon}

PlatformFiles ==
    {[dir |-> PSU_E1031_STAT_PATH, name |-> n, text |-> platform[n]] : n \in DOMAIN platform}

AllFiles == HwmonFiles \cup PlatformFiles

\* os.path.exists(path)
exists(path) == \E f \in AllFiles : PathOf(f) = path

\* Common.read_txt_file(path): the text of the file, "" when the file is
\* missing.
read_txt_file(path) ==
    IF exists(path) THEN PyStr((CHOOSE f \in AllFiles : PathOf(f) = path).text)
    ELSE PyStr(<<>>)

\* os.walk(directory), flattened to the files in the order they are
\* yielded; nothing is yielded for a directory that does not exist.
os_walk(directory) == IF directory \in DOMAIN hwmon THEN hwmon[directory] ELSE <<>>

----------------------------------------------------------------------------
(* Psu methods. Each returns the object after the call (self), the value   *)
(* returned or the exception raised (ret), and what the call did on the    *)
(* way: the (search_str, file_start) it gave the locator (query, <<>> if   *)
(* it made no search), the path the locator returned (found: <<>> for      *)
(* None, <<path>> otherwise), the paths the locator handed to              *)
(* read_txt_file (scanned) and the paths the method itself handed to       *)
(* read_txt_file (reads).                                                  *)

NoSearch == [query |-> <<>>, found |-> <<>>, scanned |-> {}]

Return(self, ret, loc, reads) ==
    [self |-> self, ret |-> ret, query |-> loc.query, found |-> loc.found,
     scanned |-> loc.scanned, reads |-> reads]

RECURSIVE search_from(_, _, _, _, _)
\* the loop of _search_file_by_contain from the i-th file yielded on
search_from(files, i, search_str, file_start, reads) ==
    IF i > Len(files)
    THEN [query |-> <<search_str, file_start>>, found |-> <<>>, scanned |-> reads]
    ELSE LET name == files[i].name
             file_path == join(files[i].dir, name)
         IN IF startswith(name, file_start)
            THEN IF contains(read_txt_file(file_path).s, search_str)
                 THEN [query |-> <<search_str, file_start>>, found |-> <<file_path>>,
                       scanned |-> reads \cup {file_path}]
                 ELSE search_from(files, i + 1, search_str, file_start,
                                  reads \cup {file_path})
            ELSE search_from(files, i + 1, search_str, file_start, reads)

\* Variant: the first file whose name starts with file_start is returned,
\* its content never compared with search_str.
search_by_name_only(directory, search_str, file_start) ==
    LET files == os_walk(directory)
        hits == {i \in 1..Len(files) : startswith(files[i].name, file_start)}
        first == CHOOSE i \in hits : \A j \in hits : i <= j
    IN IF hits = {}
       THEN [query |-> <<search_str, file_start>>, found |-> <<>>, scanned |-> {}]
       ELSE [query |-> <<search_str, file_start>>,
             found |-> <<join(files[first].dir, files[first].name)>>, scanned |-> {}]

_search_file_by_contain(directory, search_str, file_start) ==
    search_from(os_walk(directory), 1, search_str, file_start, {})

\* The body shared by the metric and threshold accessors: locate the label
\* file, derive the companion file from the digits of its base name, read
\* it (only if it exists, when check_exists) and scale it.
locate_then_read(self, label, file_start, name_template, scale, default, check_exists) ==
    LET loc == _search_file_by_contain(self.hwmon_path, label, file_start)
    IN IF loc.found # <<>>
       THEN LET label_path == loc.found[1]
                dir_name == dirname(label_path)
                num == filter_digits(basename(label_path))
                val_path == join(dir_name, format(name_template, num))
            IN IF check_exists /\ ~exists(val_path)
               THEN Return(self, default, loc, {})
               ELSE Return(self, truediv(float(read_txt_file(val_path).s), scale),
                           loc, {val_path})
       ELSE Return(self, default, loc, {})

T_in    == <<"i","n">>
T_cur   == <<"c","u","r">>
T_curr  == <<"c","u","r","r">>
T_power == <<"p","o","w","e","r">>
T_temp  == <<"t","e","m","p">>
T_vout1 == <<"v","o","u","t","1">>
T_iout1 == <<"i","o","u","t","1">>
T_pout1 == <<"p","o","u","t","1">>
T_input == <<"_","i","n","p","u","t">>
T_label == <<"_","l","a","b","e","l">>
T_crit  == <<"_","c","r","i","t">>
T_lcrit == <<"_","l","c","r","i","t">>
T_max   == <<"_","m","a","x">>

get_voltage(self) ==
    locate_then_read(self, T_vout1, T_in, [pre |-> T_in, post |-> T_input],
                     1000, PyFloat(0, 1), FALSE)

get_current(self) ==
    locate_then_read(self, T_iout1, T_cur, [pre |-> T_curr, post |-> T_input],
                     1000, PyFloat(0, 1), FALSE)

\* Variant: microwatts scaled as milli-units, like the other readings.
get_power_milli(self) ==
    locate_then_read(self, T_pout1, T_power, [pre |-> T_power, post |-> T_input],
                     1000, PyFloat(0, 1), FALSE)

get_power(self) ==
    locate_then_read(self, T_pout1, T_power, [pre |-> T_power, post |-> T_input],
                     1000000, PyFloat(0, 1), FALSE)

\* Variant: the temperature defaults to 0.0 like voltage, current and power.
get_temperature_zero(self) ==
    locate_then_read(self, T_vout1, T_in, [pre |-> T_temp, post |-> T_input],
                     1000, PyFloat(0, 1), FALSE)

get_temperature(self) ==
    locate_then_read(self, T_vout1, T_in, [pre |-> T_temp, post |-> T_input],
                     1000, PyNone, FALSE)

get_temperature_high_threshold(self) ==
    locate_then_read(self, T_vout1, T_in, [pre |-> T_temp, post |-> T_max],
                     1000, PyNone, FALSE)

get_voltage_high_threshold(self) ==
    locate_then_read(self, T_vout1, T_in, [pre |-> T_in, post |-> T_crit],
                     1000, PyFloat(126, 10), TRUE)

get_voltage_low_threshold(self) ==
    locate_then_read(self, T_vout1, T_in, [pre |-> T_in, post |-> T_lcrit],
                     1000, PyFloat(114, 10), TRUE)

psu_location == << <<"R">>, <<"L">> >>

\* Variant: any non-zero flag counts as true.
read_flag_nonzero(self, template) ==
    LET path == join(PSU_E1031_STAT_PATH, format(template, psu_location[self.index + 1]))
        v == int(or(read_txt_file(path), PyInt(0)))
    IN Return(self, IF IsRaise(v) THEN v ELSE PyBool(v.n # 0), NoSearch, {path})

\* the body shared by get_presence and get_status
read_flag(self, template) ==
    LET path == join(PSU_E1031_STAT_PATH, format(template, psu_location[self.index + 1]))
    IN Return(self, eq(int(or(read_txt_file(path), PyInt(0))), PyInt(1)), NoSearch, {path})

get_presence(self) == read_flag(self, self.psu_presence)

get_status(self) == read_flag(self, self.psu_oper_status)

get_powergood_status(self) == get_status(self)

\* Variant: the two colors the docstring names are accepted.
set_status_led_supported(self, color) ==
    Return(self, PyBool(color \in {<<"g","r","e","e","n">>, <<"o","f","f">>}), NoSearch, {})

set_status_led(self, color) == Return(self, PyBool(FALSE), NoSearch, {})

get_status_led(self) == Return(self, PyStr(STATUS_LED_COLOR_OFF), NoSearch, {})

get_name(self) == Return(self, PyStr(PSU_NAME_LIST[self.index + 1]), NoSearch, {})

\* DeviceEEPROM(path, PSU_EEPROM_FORMAT, PSU_EEPROM_START_OFFSET): the
\* decoded fields of the blob now at path
DeviceEEPROM(path) ==
    [model_str |-> eeprom[path].model, serial_number |-> eeprom[path].serial]

\* Variant: the decoder is built once and kept.
get_model_cached(self) ==
    LET s1 == IF self._eeprom = NoEeprom
              THEN [self EXCEPT !._eeprom = DeviceEEPROM(self.eeprom_addr)]
              ELSE self
    IN Return(s1, PyStr(<<s1._eeprom.model_str>>), NoSearch, {})

get_model(self) ==
    LET s1 == [self EXCEPT !._eeprom = DeviceEEPROM(self.eeprom_addr)]
    IN Return(s1, PyStr(<<s1._eeprom.model_str>>), NoSearch, {})

get_serial(self) ==
    LET s1 == [self EXCEPT !._eeprom = DeviceEEPROM(self.eeprom_addr)]
    IN Return(s1, PyStr(<<s1._eeprom.serial_number>>), NoSearch, {})

get_position_in_parent(self) == Return(self, PyInt(-1), NoSearch, {})

is_replaceable(self) == Return(self, PyBool(TRUE), NoSearch, {})

get_maximum_supplied_power(self) == Return(self, PyFloat(200, 1), NoSearch, {})

----------------------------------------------------------------------------
(* The files the model puts on disk *)

F(pre, num, post, text) == [name |-> pre \o num \o post, text |-> text]

T_bad == <<"x">>

\* (base name, content) pairs a hwmon directory may hold
SensorFiles ==
    { F(T_in, <<"3">>, T_label, T_vout1),
      F(T_in, <<"3">>, T_label, <<"v","i","n">>),
      F(T_in, <<"0">>, T_label, T_vout1),
      F(T_in, <<"0">>, T_label, <<"v","o","u","t","1","0">>),
      F(T_in, <<"3">>, T_input, <<"1","2","5","0","0">>),
      F(T_in, <<"3">>, T_input, T_bad),
      F(T_in, <<"0">>, T_input, <<"0">>),
      F(T_in, <<"3">>, T_crit, <<"1","3","0","0","0">>),
      F(T_in, <<"3">>, T_crit, T_bad),
      F(T_in, <<"3">>, T_lcrit, <<"1","1","0","0","0">>),
      F(T_in, <<"3">>, T_lcrit, T_bad),
      F(T_temp, <<"3">>, T_input, <<"3","0","1","2","5">>),
      F(T_temp, <<"3">>, T_input, T_bad),
      F(T_temp, <<"3">>, T_max, <<"7","0","0","0","0">>),
      F(T_temp, <<"3">>, T_max, T_bad),
      F(T_curr, <<"1">>, T_label, T_iout1),
      F(T_curr, <<"1">>, T_input, <<"1","5","4","0","0">>),
      F(T_curr, <<"1">>, T_input, T_bad),
      F(T_power, <<"2">>, T_label, T_pout1),
      F(T_power, <<"2">>, T_input, <<"2","5","0","5","0","0","0","0","0">>),
      F(T_power, <<"2">>, T_input, T_bad) }

\* the smaller set used where the object's own state is what is explored
FewSensorFiles ==
    { F(T_in, <<"3">>, T_label, T_vout1),
      F(T_in, <<"3">>, T_input, <<"1","2","5","0","0">>),
      F(T_in, <<"3">>, T_input, <<"1","2","0","0","0">>) }

\* what the hwmon tree of the other PSU may hold
OtherSensorFiles ==
    { F(T_in, <<"3">>, T_label, T_vout1),
      F(T_in, <<"3">>, T_input, <<"1","2","0","0","0">>),
      F(T_in, <<"3">>, T_crit, <<"1","4","0","0","0">>) }

\* (base name, content) pairs of the platform status directory: the files
\* of the object's own slot, and those of the other slot
FlagFiles(own) ==
    { [name |-> format(t, psu_location[own + 1]), text |-> text] :
        t \in {NewPsu(own).psu_presence, NewPsu(own).psu_oper_status},
        text \in {<<"1">>, <<"0">>, <<"2">>, <<"0","1">>, T_bad} }
    \cup
    { [name |-> format(t, psu_location[2 - own]), text |-> <<"1">>] :
        t \in {NewPsu(own).psu_presence, NewPsu(own).psu_oper_status} }

EepromBlobs ==
    { [model |-> "DPS-200PB-185 A", serial |-> "SN-A"],
      [model |-> "DPS-200PB-185 B", serial |-> "SN-B"] }

HwmonRoots == {NewPsu(i).hwmon_path : i \in PsuIndices}

\* the hwmonN directory the kernel creates under a hwmon root
SensorDir(root) == root \o <<"hwmon1">>

RECURSIVE SumLen(_)
SumLen(roots) ==
    IF roots = {} THEN 0
    ELSE LET r == CHOOSE x \in roots : TRUE IN Len(hwmon[r]) + SumLen(roots \ {r})

NumFiles == SumLen(DOMAIN hwmon) + Cardinality(DOMAIN platform)

NoArg == [directory |-> <<>>, search_str |-> <<>>, file_start |-> <<>>, color |-> <<>>]

NoCall ==
    [op |-> "none", arg |-> NoArg, ret |-> PyNone, query |-> <<>>, found |-> <<>>,
     scanned |-> {}, reads |-> {}]

----------------------------------------------------------------------------
(* Initial state: a Psu object just constructed for either slot, on a      *)
(* system where no sensor or status file has appeared yet.                 *)

Init ==
    /\ \E i \in PsuIndices : psu = NewPsu(i)
    /\ hwmon = [r \in {} |-> <<>>]
    /\ platform = [n \in {} |-> <<>>]
    /\ eeprom = [p \in {NewPsu(i).eeprom_addr : i \in PsuIndices} |->
                   [model |-> "DPS-200PB-185 A", serial |-> "SN-A"]]
    /\ last = NoCall

----------------------------------------------------------------------------
(* Filesystem changes made by the kernel drivers and the operator.  They   *)
(* are not code of psu.py; the accessors only observe their effect.        *)

InsertAt(seq, pos, x) == SubSeq(seq, 1, pos - 1) \o <<x>> \o SubSeq(seq, pos, Len(seq))
RemoveAt(seq, pos) == SubSeq(seq, 1, pos - 1) \o SubSeq(seq, pos + 1, Len(seq))

\* the hwmon root of a PSU appears (driver bound), empty
MakeDir ==
    /\ last = NoCall
    /\ \E r \in HwmonRoots \ DOMAIN hwmon :
        /\ hwmon' = [x \in DOMAIN hwmon \cup {r} |-> IF x = r THEN <<>> ELSE hwmon[x]]
        /\ last' = NoCall
        /\ UNCHANGED <<psu, platform, eeprom>>

\* the hwmon root of a PSU disappears with everything under it
RemoveDir ==
    /\ last = NoCall
    /\ \E r \in DOMAIN hwmon :
        /\ hwmon' = [x \in DOMAIN hwmon \ {r} |-> hwmon[x]]
        /\ last' = NoCall
        /\ UNCHANGED <<psu, platform, eeprom>>

\* a sensor file appears, at any place of the directory's enumeration order
CreateSensorFile(universe) ==
    /\ last = NoCall
    /\ NumFiles < MaxFiles
    /\ \E r \in DOMAIN hwmon :
      \E pos \in 1..(Len(hwmon[r]) + 1) :
      \E f \in (IF r = psu.hwmon_path THEN universe ELSE OtherSensorFiles) :
        /\ ~exists(join(SensorDir(r), f.name))
        /\ hwmon' = [hwmon EXCEPT ![r] =
                        InsertAt(@, pos, [dir |-> SensorDir(r), name |-> f.name, text |-> f.text])]
        /\ last' = NoCall
        /\ UNCHANGED <<psu, platform, eeprom>>

\* a sensor file is rewritten in place (a new reading)
WriteSensorFile(universe) ==
    /\ last = NoCall
    /\ \E r \in DOMAIN hwmon :
      \E f \in (IF r = psu.hwmon_path THEN universe ELSE OtherSensorFiles) :
        \E i \in 1..Len(hwmon[r]) :
            /\ hwmon[r][i].name = f.name
            /\ hwmon[r][i].text # f.text
            /\ hwmon' = [hwmon EXCEPT ![r][i].text = f.text]
            /\ last' = NoCall
            /\ UNCHANGED <<psu, platform, eeprom>>

RemoveSensorFile ==
    /\ last = NoCall
    /\ \E r \in DOMAIN hwmon :
        \E i \in 1..Len(hwmon[r]) :
            /\ hwmon' = [hwmon EXCEPT ![r] = RemoveAt(@, i)]
            /\ last' = NoCall
            /\ UNCHANGED <<psu, platform, eeprom>>

\* a platform status file appears or is rewritten
WriteFlagFile ==
    /\ last = NoCall
    /\ \E f \in FlagFiles(psu.index) :
        /\ f.name \in DOMAIN platform \/ NumFiles < MaxFiles
        /\ f.name \in DOMAIN platform => platform[f.name] # f.text
        /\ platform' = [n \in DOMAIN platform \cup {f.name} |->
                          IF n = f.name THEN f.text ELSE platform[n]]
        /\ last' = NoCall
        /\ UNCHANGED <<psu, hwmon, eeprom>>

RemoveFlagFile ==
    /\ last = NoCall
    /\ \E n \in DOMAIN platform :
        /\ platform' = [x \in DOMAIN platform \ {n} |-> platform[x]]
        /\ last' = NoCall
        /\ UNCHANGED <<psu, hwmon, eeprom>>

\* the PSU in a slot is swapped: its EEPROM now decodes to other fields
WriteEeprom ==
    /\ last = NoCall
    /\ \E p \in DOMAIN eeprom, b \in EepromBlobs :
        /\ eeprom[p] # b
        /\ eeprom' = [eeprom EXCEPT ![p] = b]
        /\ last' = NoCall
        /\ UNCHANGED <<psu, hwmon, platform>>

----------------------------------------------------------------------------
(* One action per method of Psu *)

\* The caller is single-threaded: it takes the outcome of a call before it
\* calls again, and a call runs to completion against the files as they are.
Call(op, arg, res) ==
    /\ last = NoCall
    /\ psu' = res.self
    /\ last' = [op |-> op, arg |-> arg, ret |-> res.ret, query |-> res.query,
                found |-> res.found, scanned |-> res.scanned, reads |-> res.reads]
    /\ UNCHANGED <<hwmon, platform, eeprom>>

SearchArgs ==
    { [NoArg EXCEPT !.directory = d, !.search_str = p[1], !.file_start = p[2]] :
        d \in HwmonRoots,
        p \in { <<T_vout1, T_in>>, <<T_iout1, T_cur>>, <<T_pout1, T_in>>, <<<<"1">>, T_in>> } }

SearchFileByContain ==
    \E a \in SearchArgs :
        LET loc == _search_file_by_contain(a.directory, a.search_str, a.file_start)
        IN Call("_search_file_by_contain", a, Return(psu, PyNone, loc, {}))

GetVoltage == Call("get_voltage", NoArg, get_voltage(psu))
GetCurrent == Call("get_current", NoArg, get_current(psu))
GetPower == Call("get_power", NoArg, get_power(psu))
GetTemperature == Call("get_temperature", NoArg, get_temperature(psu))
GetTemperatureHighThreshold ==
    Call("get_temperature_high_threshold", NoArg, get_temperature_high_threshold(psu))
GetVoltageHighThreshold ==
    Call("get_voltage_high_threshold", NoArg, get_voltage_high_threshold(psu))
GetVoltageLowThreshold ==
    Call("get_voltage_low_threshold", NoArg, get_voltage_low_threshold(psu))
GetPresence == Call("get_presence", NoArg, get_presence(psu))
GetStatus == Call("get_status", NoArg, get_status(psu))
GetPowergoodStatus == Call("get_powergood_status", NoArg, get_powergood_status(psu))

LedColors == { <<"g","r","e","e","n">>, <<"o","f","f">>, <<"r","e","d">> }

SetStatusLed ==
    \E color \in LedColors :
        Call("set_status_led", [NoArg EXCEPT !.color = color], set_status_led(psu, color))
GetStatusLed == Call("get_status_led", NoArg, get_status_led(psu))
GetName == Call("get_name", NoArg, get_name(psu))
GetModel == Call("get_model", NoArg, get_model(psu))
GetSerial == Call("get_serial", NoArg, get_serial(psu))
GetPositionInParent == Call("get_position_in_parent", NoArg, get_position_in_parent(psu))
IsReplaceable == Call("is_replaceable", NoArg, is_replaceable(psu))
GetMaximumSuppliedPower ==
    Call("get_maximum_supplied_power", NoArg, get_maximum_supplied_power(psu))

\* the caller has taken the outcome of the call
ReturnToCaller ==
    /\ last # NoCall
    /\ last' = NoCall
    /\ UNCHANGED <<psu, hwmon, platform, eeprom>>

\* Sensor and status readings against a changing sysfs
Next ==
    \/ MakeDir \/ RemoveDir
    \/ CreateSensorFile(SensorFiles) \/ WriteSensorFile(SensorFiles) \/ RemoveSensorFile
    \/ WriteFlagFile \/ RemoveFlagFile
    \/ SearchFileByContain
    \/ GetVoltage \/ GetCurrent \/ GetPower \/ GetTemperature
    \/ GetTemperatureHighThreshold \/ GetVoltageHighThreshold \/ GetVoltageLowThreshold
    \/ GetPresence \/ GetStatus \/ GetPowergoodStatus
    \/ ReturnToCaller

Spec == Init /\ [][Next]_vars

\* Every method of the object, against a small sysfs and a swappable EEPROM
NextObj ==
    \/ MakeDir \/ RemoveDir
    \/ CreateSensorFile(FewSensorFiles) \/ WriteSensorFile(FewSensorFiles) \/ RemoveSensorFile
    \/ WriteFlagFile \/ RemoveFlagFile \/ WriteEeprom
    \/ GetVoltage \/ GetCurrent \/ GetPower \/ GetTemperature
    \/ GetTemperatureHighThreshold \/ GetVoltageHighThreshold \/ GetVoltageLowThreshold
    \/ GetPresence \/ GetStatus \/ GetPowergoodStatus
    \/ SetStatusLed \/ GetStatusLed \/ GetName \/ GetModel \/ GetSerial
    \/ GetPositionInParent \/ IsReplaceable \/ GetMaximumSuppliedPower
    \/ ReturnToCaller

SpecObj == Init /\ [][NextObj]_vars

----------------------------------------------------------------------------
(* Vocabulary of the properties: what the documented behaviour expects of  *)
(* each accessor, written out independently of the methods above.          *)

MetricOps == {"get_voltage", "get_current", "get_power", "get_temperature"}

ThresholdOps ==
    {"get_voltage_high_threshold", "get_voltage_low_threshold",
     "get_temperature_high_threshold"}

FlagOps == {"get_presence", "get_status"}

\* the companion file name, the scale and the default documented for op
Expect(op) ==
    CASE op = "get_voltage" ->
           [file_start |-> T_in, pre |-> T_in, post |-> T_input, scale |-> 1000,
            default |-> PyFloat(0, 1)]
      [] op = "get_current" ->
           [file_start |-> T_cur, pre |-> T_curr, post |-> T_input, scale |-> 1000,
            default |-> PyFloat(0, 1)]
      [] op = "get_power" ->
           [file_start |-> T_power, pre |-> T_power, post |-> T_input, scale |-> 1000000,
            default |-> PyFloat(0, 1)]
      [] op = "get_temperature" ->
           [file_start |-> T_in, pre |-> T_temp, post |-> T_input, scale |-> 1000,
            default |-> PyNone]
      [] op = "get_temperature_high_threshold" ->
           [file_start |-> T_in, pre |-> T_temp, post |-> T_max, scale |-> 1000,
            default |-> PyNone]
      [] op = "get_voltage_high_threshold" ->
           [file_start |-> T_in, pre |-> T_in, post |-> T_crit, scale |-> 1000,
            default |-> PyFloat(126, 10)]
      [] op = "get_voltage_low_threshold" ->
           [file_start |-> T_in, pre |-> T_in, post |-> T_lcrit, scale |-> 1000,
            default |-> PyFloat(114, 10)]

\* the companion of the label file the locator returned to the last call
Companion(op) ==
    join(last.found[1].dir,
         Expect(op).pre \o filter_digits(last.found[1].name) \o Expect(op).post)

OnDisk(path) == \E f \in AllFiles : f.dir = path.dir /\ f.name = path.name
TextAt(path) == (CHOOSE f \in AllFiles : f.dir = path.dir /\ f.name = path.name).text

endswith(s, p) == Len(p) <= Len(s) /\ SubSeq(s, Len(s) - Len(p) + 1, Len(s)) = p

\* [sign] digits
IsIntText(t) == Unsigned(t) # <<>> /\ AllDigits(Unsigned(t))
IntOf(t) == Sign(t) * NatVal(Unsigned(t))

\* [sign] digits with at most one "." among them
IsNumberText(t) ==
    LET u == Unsigned(t)
    IN /\ \A i \in 1..Len(u) : u[i] \in Digits \cup {"."}
       /\ \E i \in 1..Len(u) : u[i] \in Digits
       /\ Cardinality({i \in 1..Len(u) : u[i] = "."}) <= 1

\* non-empty text that is not a number
NotANumber(t) == t # <<>> /\ ~IsNumberText(t)

\* the status file of the object's own slot
FlagName(op) ==
    <<"p","s","u">> \o (IF psu.index = 0 THEN <<"R">> ELSE <<"L">>)
    \o (IF op = "get_presence" THEN <<"_","p","r","s">> ELSE <<"_","s","t","a","t","u","s">>)

OtherFlagName(op) ==
    <<"p","s","u">> \o (IF psu.index = 0 THEN <<"L">> ELSE <<"R">>)
    \o (IF op = "get_presence" THEN <<"_","p","r","s">> ELSE <<"_","s","t","a","t","u","s">>)

\* the search the last call made: directory, search_str, file_start
SearchOf ==
    IF last.op = "_search_file_by_contain" THEN last.arg
    ELSE [NoArg EXCEPT !.directory = psu.hwmon_path, !.search_str = last.query[1],
                       !.file_start = last.query[2]]

\* the paths under a.directory whose name starts with a.file_start and
\* whose content contains a.search_str
Qualifying(a) ==
    { join(f.dir, f.name) :
        f \in { g \in HwmonFiles :
                  /\ startswith(g.dir, a.directory)
                  /\ startswith(g.name, a.file_start)
                  /\ contains(g.text, a.search_str) } }

\* the outcome of method op on an object in state self, files as they are
Dispatch(op, arg, self) ==
    CASE op = "get_voltage" -> get_voltage(self)
      [] op = "get_current" -> get_current(self)
      [] op = "get_power" -> get_power(self)
      [] op = "get_temperature" -> get_temperature(self)
      [] op = "get_temperature_high_threshold" -> get_temperature_high_threshold(self)
      [] op = "get_voltage_high_threshold" -> get_voltage_high_threshold(self)
      [] op = "get_voltage_low_threshold" -> get_voltage_low_threshold(self)
      [] op = "get_presence" -> get_presence(self)
      [] op = "get_status" -> get_status(self)
      [] op = "get_powergood_status" -> get_powergood_status(self)
      [] op = "set_status_led" -> set_status_led(self, arg.color)
      [] op = "get_status_led" -> get_status_led(self)
      [] op = "get_name" -> get_name(self)
      [] op = "get_model" -> get_model(self)
      [] op = "get_serial" -> get_serial(self)
      [] op = "get_position_in_parent" -> get_position_in_parent(self)
      [] op = "is_replaceable" -> is_replaceable(self)
      [] op = "get_maximum_supplied_power" -> get_maximum_supplied_power(self)

----------------------------------------------------------------------------
(* C1 *)

\* every file on disk other than a label file holds an integer: files may
\* be missing, none is malformed
OnlyAbsence ==
    \A f \in AllFiles : endswith(f.name, T_label) \/ IsIntText(f.text)

\* C1: with any subset of the sensor, threshold and status files missing
\* and none malformed, no metric, threshold, presence or status accessor
\* ends in an error.
C1_AbsenceNeverRaises ==
    (last.op \in MetricOps \cup ThresholdOps \cup FlagOps /\ OnlyAbsence)
        => ~IsRaise(last.ret)

----------------------------------------------------------------------------
(* C2 *)

\* C2: when the locator matched a label file whose base name carries the
\* digits N, get_voltage, get_current and get_power read exactly the file
\* in{N}_input, curr{N}_input, power{N}_input of the same directory, and
\* for integer content return it divided by 1000, 1000 and 1000000.
C2_ScaledCompanionReading ==
    \A op \in {"get_voltage", "get_current", "get_power"} :
        (last.op = op /\ last.found # <<>>) =>
            /\ last.reads = {Companion(op)}
            /\ (OnDisk(Companion(op)) /\ IsIntText(TextAt(Companion(op)))) =>
                   last.ret = PyFloat(IntOf(TextAt(Companion(op))), Expect(op).scale)

\* get_power has returned 250.5 from power2_input = 250500000 next to
\* power2_label
C2_Witness ==
    /\ last.op = "get_power"
    /\ last.found # <<>>
    /\ last.found[1].name = T_power \o <<"2">> \o T_label
    /\ OnDisk(Companion("get_power"))
    /\ TextAt(Companion("get_power")) = <<"2","5","0","5","0","0","0","0","0">>
    /\ last.ret = PyFloat(2505, 10)

----------------------------------------------------------------------------
(* C3 *)

\* C3: each threshold accessor reads its companion file (_crit, _lcrit,
\* _max) only if it is on disk and otherwise returns its default, never
\* 0.0; when the file is there the result is its integer content / 1000.
C3_ThresholdReadOnlyIfOnDisk ==
    \A op \in ThresholdOps :
        (last.op = op /\ last.found # <<>>) =>
            IF OnDisk(Companion(op))
            THEN IsIntText(TextAt(Companion(op))) =>
                     last.ret = PyFloat(IntOf(TextAt(Companion(op))), 1000)
            ELSE /\ last.reads = {}
                 /\ last.ret = Expect(op).default
                 /\ last.ret # PyFloat(0, 1)

----------------------------------------------------------------------------
(* C4 *)

\* C4 as stated: with no matching label file, the four metric readers
\* return their default and no value file, a file named ..._input, is
\* read at all.
C4_NoValueFileTouched ==
    (last.op \in MetricOps /\ last.found = <<>>) =>
        /\ last.ret = Expect(last.op).default
        /\ \A p \in last.scanned \cup last.reads : ~endswith(p.name, T_input)

\* C4: with no matching label file (the hwmon directory missing included)
\* get_voltage, get_current and get_power return 0.0 and get_temperature
\* returns None, which is not 0.0; the accessor reads no file after the
\* search, and the search itself opened only files whose name starts with
\* the metric's prefix.
C4_NoMatchGivesDefault ==
    (last.op \in MetricOps /\ last.found = <<>>) =>
        /\ last.ret = Expect(last.op).default
        /\ last.op = "get_temperature" => (last.ret = PyNone /\ last.ret # PyFloat(0, 1))
        /\ last.reads = {}
        /\ \A p \in last.scanned : startswith(p.name, Expect(last.op).file_start)

\* get_temperature has returned None after a search that opened a file
\* named ..._input and matched nothing
C4_Witness ==
    /\ last.op = "get_temperature"
    /\ last.found = <<>>
    /\ last.ret = PyNone
    /\ \E p \in last.scanned : endswith(p.name, T_input)

----------------------------------------------------------------------------
(* C5 *)

\* C5: get_presence and get_status read only the file of the object's own
\* slot (psuR_* for index 0, psuL_* for index 1); the result is True
\* exactly when that file holds an integer equal to 1, and False when it
\* holds another integer or is missing.
C5_FlagIsOwnFileEqualOne ==
    \A op \in FlagOps :
        last.op = op =>
            /\ last.reads = {join(PSU_E1031_STAT_PATH, FlagName(op))}
            /\ last.scanned = {}
            /\ FlagName(op) \notin DOMAIN platform => last.ret = PyBool(FALSE)
            /\ (FlagName(op) \in DOMAIN platform /\ IsIntText(platform[FlagName(op)])) =>
                   last.ret = PyBool(IntOf(platform[FlagName(op)]) = 1)
            /\ last.ret = PyBool(TRUE) =>
                   /\ FlagName(op) \in DOMAIN platform
                   /\ IsIntText(platform[FlagName(op)])
                   /\ IntOf(platform[FlagName(op)]) = 1

\* get_presence has returned False for a slot whose file holds 2 while the
\* other slot's file holds 1
C5_Witness ==
    /\ last.op = "get_presence"
    /\ last.ret = PyBool(FALSE)
    /\ FlagName("get_presence") \in DOMAIN platform
    /\ platform[FlagName("get_presence")] = <<"2">>
    /\ OtherFlagName("get_presence") \in DOMAIN platform
    /\ platform[OtherFlagName("get_presence")] = <<"1">>

----------------------------------------------------------------------------
(* C6 *)

\* C6: whenever the locator returns a path, it is a file under the
\* directory whose name starts with file_start and whose content contains
\* search_str; it returns None exactly when no such file exists (a missing
\* directory included).
C6_LocatorSoundAndComplete ==
    last.query # <<>> =>
        /\ last.found = <<>> <=> Qualifying(SearchOf) = {}
        /\ last.found # <<>> => last.found[1] \in Qualifying(SearchOf)

\* the locator has returned the one qualifying file, which the directory
\* enumerates second
C6_Witness ==
    /\ last.op = "_search_file_by_contain"
    /\ Cardinality(Qualifying(last.arg)) = 1
    /\ last.found # <<>>
    /\ Len(os_walk(last.arg.directory)) >= 2
    /\ last.found[1] = PathOf(os_walk(last.arg.directory)[2])

----------------------------------------------------------------------------
(* C7 *)

\* C7: the outcome of every call is the one the same call gives on a newly
\* constructed object of the same index with the files as they are: it
\* depends on nothing an earlier call left in the object.
C7_OutcomeIgnoresEarlierCalls ==
    last # NoCall =>
        LET fresh == Dispatch(last.op, last.arg, NewPsu(psu.index))
        IN /\ last.ret = fresh.ret
           /\ last.found = fresh.found
           /\ last.reads = fresh.reads
           /\ last.scanned = fresh.scanned

\* get_voltage has returned 12.0 on an object in which an earlier
\* get_model or get_serial call left the decoder of an EEPROM that has
\* been replaced since
C7_Witness ==
    /\ last.op = "get_voltage"
    /\ last.ret = PyFloat(12, 1)
    /\ psu._eeprom # NoEeprom
    /\ psu._eeprom.serial_number # eeprom[psu.eeprom_addr].serial

----------------------------------------------------------------------------
(* C8 *)

----------------------------------------------------------------------------
(* C9 *)

\* C9: the (label, prefix) pair a metric reader gives the locator is given
\* by none of the other three metric readers, so the label file whose
\* digits it takes is the label file of no other metric.
C9_MetricPairsDistinct ==
    (last.op \in MetricOps /\ last.found # <<>>) =>
        \A m \in MetricOps \ {last.op} : Dispatch(m, NoArg, psu).query # last.query

----------------------------------------------------------------------------
(* C10 *)

\* C10: when the file an accessor parses is on disk and holds non-empty
\* text that is not a number (not a signed decimal), the call ends in an
\* error: the value file of a metric reader, the threshold file of a
\* threshold accessor, the presence or status file of get_presence and
\* get_status.
C10_MalformedIsFatal ==
    /\ \A op \in MetricOps \cup ThresholdOps :
           (/\ last.op = op
            /\ last.found # <<>>
            /\ OnDisk(Companion(op))
            /\ NotANumber(TextAt(Companion(op)))) => IsRaise(last.ret)
    /\ \A op \in FlagOps :
           (/\ last.op = op
            /\ FlagName(op) \in DOMAIN platform
            /\ NotANumber(platform[FlagName(op)])) => IsRaise(last.ret)

\* get_voltage_high_threshold has raised on an in3_crit file holding "x"
C10_Witness ==
    /\ last.op = "get_voltage_high_threshold"
    /\ last.found # <<>>
    /\ OnDisk(Companion("get_voltage_high_threshold"))
    /\ TextAt(Companion("get_voltage_high_threshold")) = T_bad
    /\ IsRaise(last.ret)

====
